---- MODULE Spec2Model ----
(***************************************************************************)
(* Account security, login throttle, password-reset tokens, addresses and  *)
(* cache invalidation of the avixiii-api backend, as state machines.       *)
(*                                                                         *)
(* Time is counted in seconds.  A Django model instance held by a request   *)
(* is a copy of its row: it is written back only by save().                *)
(***************************************************************************)
EXTENDS Integers, Sequences, FiniteSets, TLC

VARIABLES
    now,            \* timezone.now() / the cache's clock, in seconds
    db_user,        \* table auth_users: user -> row
    inst,           \* request -> the User instance that request holds
    security_log,   \* table auth_security_logs, in insertion order
    login_attempts, \* table auth_login_attempts, in insertion order
    calls,          \* user -> increment_failed_login calls since the last reset_failed_login
    cache,          \* django.core.cache: key -> entry
    window_start,   \* ip -> when the call that opened its current throttle window was made
    window_calls,   \* ip -> check_ip_rate_limit calls made since that call, itself included
    pending,        \* request -> the check_ip_rate_limit call it is in the middle of
    served,         \* ip -> check_ip_rate_limit calls that returned True
    password_resets,\* table auth_password_resets: row i has id i
    replies,        \* email -> what RequestPasswordReset answered for it last
    issued,         \* request -> the token it created and has not yet invalidated the others of
    addresses,      \* table account_address: row i has id i
    profiles,       \* table account_profile: user -> row
    preferences,    \* table account_notificationpreference: user -> row
    purchases,      \* table store_purchase, in insertion order
    notifications,  \* table account_notification, in insertion order
    saving,         \* request -> the Address.save it is in the middle of
    last            \* the call that was made last, and what it returned

authVars == <<db_user, inst, security_log, login_attempts, calls>>
cacheVars == <<cache, window_start, window_calls, pending, served>>
resetVars == <<password_resets, replies, issued>>
accountVars == <<addresses, profiles, preferences>>
storeVars == <<purchases>>
notificationVars == <<notifications>>
savingVars == <<saving>>
vars ==
    <<now, authVars, cacheVars, resetVars, accountVars, storeVars, notificationVars,
      savingVars, last>>

\* What the operations of one part leave alone in the other parts
notAuth == <<cacheVars, resetVars, accountVars, storeVars, notificationVars, savingVars>>
notCache == <<authVars, resetVars, accountVars, storeVars, notificationVars, savingVars>>
notReset ==
    <<now, authVars, cacheVars, accountVars, storeVars, notificationVars, savingVars>>
notAccount ==
    <<now, authVars, window_start, window_calls, pending, served, resetVars, storeVars,
      notificationVars, savingVars>>
notStore ==
    <<now, authVars, cacheVars, resetVars, accountVars, notificationVars, savingVars>>
notNotification ==
    <<now, authVars, window_start, window_calls, pending, served, resetVars, storeVars,
      accountVars, savingVars>>

-----------------------------------------------------------------------------
(* Bounds of the model *)

MaxNowLock == 3600      \* the clock stops here in the lockout specifications
MaxCalls == 6           \* increment_failed_login calls per user between two resets
MaxNowThrottle == 120   \* the clock stops here in the throttle specification
MaxWindowCalls == 12    \* check_ip_rate_limit calls per IP in one window
MaxTokens == 3          \* password reset tokens ever issued
MaxAddresses == 3       \* addresses ever created
MaxCachedAddresses == 1 \* addresses ever created where profiles and preferences are updated too
MaxLog == 2             \* security log entries ever written by the mutations
MaxItems == 2           \* line items of one order
MaxServed == 12         \* check_ip_rate_limit calls per IP that concurrent requests get served
MaxNotifications == 2   \* notifications ever created
MaxRaceCount == 5       \* the failed-login count a copy may hold before a concurrent increment
MaxNowRace == 1800      \* the clock stops here where requests run concurrently

-----------------------------------------------------------------------------
(* Values *)

Users == {"u1", "u2"}
Reqs == {"r1", "r2"}
SeqReqs == {"r1"}

\* NULL in a nullable DateTimeField / GenericIPAddressField column
None == -1

\* timedelta(minutes=30)
LockMinutes == 30
LockSeconds == LockMinutes * 60

\* "Lock account after 5 failed attempts"
LockThreshold == 5

NoUser == "nobody"

\* The unique email address each user was created with
EmailOf(u) == <<u, "example.com">>

\* make_password / set_password: what is stored is a salted hash, never the
\* raw password
make_password(raw_password) == <<"pbkdf2_sha256", raw_password>>

\* The password the users were created with
InitialPassword == "testpass123"

\* A User row as created by create_user: the defaults of the lockout columns.
NewUserRow(u) ==
    [email |-> EmailOf(u), password |-> make_password(InitialPassword),
     failed_login_attempts |-> 0, last_failed_login |-> None,
     account_locked_until |-> None]

\* The instance of a row: the row's columns, and whose row it is
Instance(u, row) ==
    [f \in DOMAIN row \cup {"user"} |-> IF f = "user" THEN u ELSE row[f]]

\* A request that holds no User instance.
NoInst == Instance(NoUser, NewUserRow(NoUser))

\* What a call reports: the operation, who made it, on which user, what it
\* returned (or raised), and the update_fields of the save() it made.
Call(op, r, u, ret, fields) ==
    [op |-> op, req |-> r, user |-> u, key |-> "none", args |-> <<>>, ret |-> ret,
     update_fields |-> fields]

\* The same for a call that is made on a key (an IP address, an id) rather
\* than on a loaded User instance.
CallOn(op, key, ret) ==
    [op |-> op, req |-> "none", user |-> NoUser, key |-> key, args |-> <<>>, ret |-> ret,
     update_fields |-> {}]

\* A call, with the arguments it was given
WithArgs(call, args) == [call EXCEPT !.args = args]

NoCall == Call("none", "none", NoUser, "None", {})

-----------------------------------------------------------------------------
(* SecurityLog *)

\* SecurityLog.objects.create: ip_address is a GenericIPAddressField without
\* null=True and without a default, so a row whose ip_address is None violates
\* NOT NULL and the INSERT raises IntegrityError.
SecurityLogCreateOk(ip_address) == ip_address # None

SecurityLogRow(u, event_type, ip_address) ==
    [user |-> u, event_type |-> event_type, ip_address |-> ip_address]

-----------------------------------------------------------------------------
(* User: the lockout methods *)

\* is_account_locked with the comparison made non-strict
Mutant_is_account_locked_NonStrict(self) ==
    self.account_locked_until # None /\ self.account_locked_until >= now

\* User.is_account_locked, on a row or an instance
is_account_locked(self) ==
    self.account_locked_until # None /\ self.account_locked_until > now

\* Incremented with the lock set one failure early
Mutant_Incremented_LocksEarly(self) ==
    LET n == self.failed_login_attempts + 1
    IN  [self EXCEPT !.failed_login_attempts = n,
                     !.last_failed_login = now,
                     !.account_locked_until =
                         IF n >= LockThreshold - 1 THEN now + LockSeconds ELSE @]

\* The instance after lines 74-79 of increment_failed_login
Incremented(self) ==
    LET n == self.failed_login_attempts + 1
    IN  [self EXCEPT !.failed_login_attempts = n,
                     !.last_failed_login = now,
                     !.account_locked_until =
                         IF n >= LockThreshold THEN now + LockSeconds ELSE @]

\* The ip_address increment_failed_login passes to SecurityLog.objects.create:
\* it passes none.
LockLogIp == None

\* save() that ignores update_fields and writes every column
Mutant_SaveFields_WritesAll(row, self, fields) ==
    [f \in DOMAIN row |-> self[f]]

\* save(update_fields=[...]): the named columns of the row become the instance's
SaveFields(row, self, fields) ==
    [f \in DOMAIN row |-> IF f \in fields THEN self[f] ELSE row[f]]

IncrementFields == {"failed_login_attempts", "last_failed_login", "account_locked_until"}
ResetFields == {"failed_login_attempts", "account_locked_until"}

\* User.objects.get / refresh_from_db: request r gets a fresh copy of u's row
Load(r, u) ==
    /\ inst' = [inst EXCEPT ![r] = Instance(u, db_user[u])]
    /\ last' = Call("load", r, u, "None", {})
    /\ UNCHANGED <<now, db_user, security_log, login_attempts, calls, notAuth>>

\* User.increment_failed_login on the instance of request r
Mutant_increment_failed_login_SavesFirst(r) ==
    LET self == inst[r]
        u == self.user
        new == Incremented(self)
        locks == new.failed_login_attempts >= LockThreshold
    IN  /\ u # NoUser
        /\ calls[u] < MaxCalls
        /\ calls' = [calls EXCEPT ![u] = @ + 1]
        /\ inst' = [inst EXCEPT ![r] = new]
        /\ db_user' = [db_user EXCEPT ![u] = SaveFields(@, new, IncrementFields)]
        /\ IF locks /\ ~SecurityLogCreateOk(LockLogIp)
           THEN /\ last' = Call("increment_failed_login", r, u, "IntegrityError",
                                 IncrementFields)
                /\ UNCHANGED security_log
           ELSE /\ security_log' =
                     IF locks
                     THEN Append(security_log, SecurityLogRow(u, "account_lock", LockLogIp))
                     ELSE security_log
                /\ last' = Call("increment_failed_login", r, u, "None", IncrementFields)
        /\ UNCHANGED <<now, login_attempts, notAuth>>

increment_failed_login(r) ==
    LET self == inst[r]
        u == self.user
        new == Incremented(self)
        locks == new.failed_login_attempts >= LockThreshold
    IN  /\ u # NoUser
        /\ calls[u] < MaxCalls
        /\ calls' = [calls EXCEPT ![u] = @ + 1]
        /\ inst' = [inst EXCEPT ![r] = new]
        /\ IF locks /\ ~SecurityLogCreateOk(LockLogIp)
           THEN \* the create raises before save() is reached
                /\ last' = Call("increment_failed_login", r, u, "IntegrityError", {})
                /\ UNCHANGED <<db_user, security_log>>
           ELSE /\ security_log' =
                     IF locks
                     THEN Append(security_log, SecurityLogRow(u, "account_lock", LockLogIp))
                     ELSE security_log
                /\ db_user' = [db_user EXCEPT ![u] = SaveFields(@, new, IncrementFields)]
                /\ last' = Call("increment_failed_login", r, u, "None", IncrementFields)
        /\ UNCHANGED <<now, login_attempts, notAuth>>

\* reset_failed_login that resets the counter and forgets the lock-expiry
Mutant_reset_failed_login_KeepsLock(r) ==
    LET self == inst[r]
        u == self.user
        new == [self EXCEPT !.failed_login_attempts = 0]
    IN  /\ u # NoUser
        /\ calls' = [calls EXCEPT ![u] = 0]
        /\ IF self.failed_login_attempts > 0
           THEN /\ inst' = [inst EXCEPT ![r] = new]
                /\ db_user' = [db_user EXCEPT ![u] = SaveFields(@, new, ResetFields)]
                /\ last' = Call("reset_failed_login", r, u, "None", ResetFields)
           ELSE /\ last' = Call("reset_failed_login", r, u, "None", {})
                /\ UNCHANGED <<inst, db_user>>
        /\ UNCHANGED <<now, security_log, login_attempts, notAuth>>

\* reset_failed_login without its "if self.failed_login_attempts > 0"
Mutant_reset_failed_login_AlwaysSaves(r) ==
    LET self == inst[r]
        u == self.user
        new == [self EXCEPT !.failed_login_attempts = 0, !.account_locked_until = None]
    IN  /\ u # NoUser
        /\ calls' = [calls EXCEPT ![u] = 0]
        /\ inst' = [inst EXCEPT ![r] = new]
        /\ db_user' = [db_user EXCEPT ![u] = SaveFields(@, new, ResetFields)]
        /\ last' = Call("reset_failed_login", r, u, "None", ResetFields)
        /\ UNCHANGED <<now, security_log, login_attempts, notAuth>>

\* User.reset_failed_login on the instance of request r
reset_failed_login(r) ==
    LET self == inst[r]
        u == self.user
        new == [self EXCEPT !.failed_login_attempts = 0, !.account_locked_until = None]
    IN  /\ u # NoUser
        /\ calls' = [calls EXCEPT ![u] = 0]
        /\ IF self.failed_login_attempts > 0
           THEN /\ inst' = [inst EXCEPT ![r] = new]
                /\ db_user' = [db_user EXCEPT ![u] = SaveFields(@, new, ResetFields)]
                /\ last' = Call("reset_failed_login", r, u, "None", ResetFields)
           ELSE /\ last' = Call("reset_failed_login", r, u, "None", {})
                /\ UNCHANGED <<inst, db_user>>
        /\ UNCHANGED <<now, security_log, login_attempts, notAuth>>

\* A call of User.is_account_locked on the instance of request r
IsAccountLocked(r) ==
    LET self == inst[r]
    IN  /\ self.user # NoUser
        /\ last' = Call("is_account_locked", r, self.user,
                        IF is_account_locked(self) THEN "True" ELSE "False", {})
        /\ UNCHANGED <<now, authVars, notAuth>>

\* Time passes
LockTickSteps == {LockSeconds \div 2, LockSeconds}

TickLock(d) ==
    /\ now + d <= MaxNowLock
    /\ now' = now + d
    /\ last' = Call("tick", "none", NoUser, "None", {})
    /\ UNCHANGED <<authVars, notAuth>>

-----------------------------------------------------------------------------
(* The mutations on the logged-in user, and token_auth *)

\* A second password that passes the validators, and one that does not
OtherPassword == "admin123"
WeakPassword == "123"
Passwords == {InitialPassword, OtherPassword}

\* user.check_password(raw_password)
check_password(self, raw_password) == self.password = make_password(raw_password)

\* django.contrib.auth.password_validation.validate_password: TRUE when it
\* returns, FALSE when it raises ValidationError
validate_password(raw_password) == raw_password # WeakPassword

\* info.context.META.get('REMOTE_ADDR'): the address 127.0.0.1 of the client,
\* or None when the server put no REMOTE_ADDR into the request
ClientAddr == 127
RemoteAddrs == {None, ClientAddr}

\* An email address that belongs to nobody at first, and the email argument
\* that was not given
FreeEmail == <<"new", "example.com">>
NoEmail == <<>>

\* Every column of the User row
UserFields == DOMAIN NewUserRow(NoUser)

\* Whether the UPDATE of user.save() passes the unique constraint on email
UserSaveOk(u, self) == \A v \in Users \ {u} : db_user[v].email # self.email

\* ChangePassword.mutate for the user instance of request r
ChangePassword(r, old_password, new_password, remote_addr) ==
    LET user == inst[r]
        u == user.user
        new == [user EXCEPT !.password = make_password(new_password)]
        args == <<old_password, new_password, remote_addr>>
    IN  /\ u # NoUser
        /\ Len(security_log) < MaxLog
        /\ IF ~check_password(user, old_password)
           THEN /\ last' = WithArgs(Call("change_password", r, u,
                                          "Old password is incorrect", {}), args)
                /\ UNCHANGED <<inst, db_user, security_log>>
           ELSE IF ~validate_password(new_password)
           THEN /\ last' = WithArgs(Call("change_password", r, u, "ValidationError", {}),
                                 args)
                /\ UNCHANGED <<inst, db_user, security_log>>
           ELSE IF ~UserSaveOk(u, new)
           THEN \* user.save() raises, caught by "except Exception"
                /\ inst' = [inst EXCEPT ![r] = new]
                /\ last' = WithArgs(Call("change_password", r, u, "IntegrityError", {}),
                                 args)
                /\ UNCHANGED <<db_user, security_log>>
           ELSE /\ inst' = [inst EXCEPT ![r] = new]
                /\ db_user' = [db_user EXCEPT ![u] = SaveFields(@, new, UserFields)]
                /\ IF SecurityLogCreateOk(remote_addr)
                   THEN /\ security_log' = Append(security_log,
                                SecurityLogRow(u, "password_change", remote_addr))
                        /\ last' = WithArgs(Call("change_password", r, u,
                                        "Password changed successfully", UserFields), args)
                   ELSE \* the create raises after save(), caught by "except Exception"
                        /\ last' = WithArgs(Call("change_password", r, u,
                                        "IntegrityError", UserFields), args)
                        /\ UNCHANGED security_log
        /\ UNCHANGED <<now, login_attempts, calls, notAuth>>

\* UpdateUser.mutate for the user instance of request r (first_name and
\* last_name are columns no other operation reads)
UpdateUser(r, email) ==
    LET user == inst[r]
        u == user.user
        new == IF email = NoEmail THEN user ELSE [user EXCEPT !.email = email]
    IN  /\ u # NoUser
        /\ inst' = [inst EXCEPT ![r] = new]
        /\ IF UserSaveOk(u, new)
           THEN /\ db_user' = [db_user EXCEPT ![u] = SaveFields(@, new, UserFields)]
                /\ last' = WithArgs(Call("update_user", r, u,
                                "User updated successfully", UserFields), <<email>>)
           ELSE /\ last' = WithArgs(Call("update_user", r, u, "IntegrityError", {}),
                                 <<email>>)
                /\ UNCHANGED db_user
        /\ UNCHANGED <<now, security_log, login_attempts, calls, notAuth>>

\* Mutation.token_auth is graphql_jwt.ObtainJSONWebToken: it authenticates the
\* credentials against the row and answers with a token or with an error. It
\* calls none of the lockout methods and writes no row.
TokenAuth(u, password) ==
    /\ last' = WithArgs(CallOn("token_auth", u,
                               IF check_password(db_user[u], password)
                               THEN "token" ELSE "Please enter valid credentials"),
                        <<password>>)
    /\ UNCHANGED <<now, authVars, notAuth>>

-----------------------------------------------------------------------------
(* django.core.cache *)

IPs == {"ip1", "ip2"}

\* f'login_attempts_ip_{ip_address}'
IpKey(ip) == <<"login_attempts_ip", ip>>

\* f'profile_{self.user_id}', f'notification_preferences_{self.user_id}',
\* f'addresses_{self.user_id}'
ProfileKey(u) == <<"profile", u>>
PreferenceKey(u) == <<"notification_preferences", u>>
AddressesKey(u) == <<"addresses", u>>

\* f'unread_notifications_{self.user_id}'
UnreadKey(u) == <<"unread_notifications", u>>

CacheKeys ==
    {IpKey(ip) : ip \in IPs} \cup {ProfileKey(u) : u \in Users}
        \cup {PreferenceKey(u) : u \in Users} \cup {AddressesKey(u) : u \in Users}
        \cup {UnreadKey(u) : u \in Users}

\* A key the cache does not hold
Missing == [value |-> None, expires |-> None]

\* An entry is gone once its expiry time is reached; an entry that was set
\* without a timeout of its own has no expiry time here
Live(entry) == entry # Missing /\ (entry.expires = None \/ entry.expires > now)

\* cache.get(key, default)
cache_get(key, default) == IF Live(cache[key]) THEN cache[key].value ELSE default

\* cache.set(key, value, timeout): the entry lives until now + timeout
cache_set(key, value, timeout) ==
    [cache EXCEPT ![key] = [value |-> value, expires |-> now + timeout]]

\* cache.set(key, value), as the tests fill the cache
cache_set_default(key, value) ==
    [cache EXCEPT ![key] = [value |-> value, expires |-> None]]

\* cache.delete(key)
cache_delete(c, key) == [c EXCEPT ![key] = Missing]

-----------------------------------------------------------------------------
(* LoginAttempt.check_ip_rate_limit *)

\* A request that is not in the middle of check_ip_rate_limit
NoPending == [ip |-> "none", attempts |-> None]

\* "Limit to 10 attempts per minute"
RateLimit == 10

\* "60 seconds timeout"
ThrottleTimeout == 60

\* the limit test made with > instead of >=
Mutant_Exhausted_OffByOne(attempts) == attempts > RateLimit

\* if attempts >= 10: return False
Exhausted(attempts) == attempts >= RateLimit

check_ip_rate_limit(ip) ==
    LET cache_key == IpKey(ip)
        attempts == cache_get(cache_key, 0)
        opens == ~Live(cache[cache_key])
    IN  /\ (IF opens THEN 0 ELSE window_calls[ip]) < MaxWindowCalls
        /\ window_calls' = [window_calls EXCEPT ![ip] = IF opens THEN 1 ELSE @ + 1]
        /\ window_start' = [window_start EXCEPT ![ip] = IF opens THEN now ELSE @]
        /\ IF Exhausted(attempts)
           THEN /\ last' = CallOn("check_ip_rate_limit", ip, "False")
                /\ UNCHANGED cache
           ELSE /\ cache' = cache_set(cache_key, attempts + 1, ThrottleTimeout)
                /\ last' = CallOn("check_ip_rate_limit", ip, "True")
        /\ UNCHANGED <<now, pending, served, notCache>>

\* check_ip_rate_limit as concurrent requests run it: line 129, the cache.get,
\* is one step; lines 130-133, the test and the cache.set, are another, and
\* other requests may run in between
check_ip_rate_limit_get(r, ip) ==
    /\ pending[r] = NoPending
    /\ served[ip] < MaxServed
    /\ pending' = [pending EXCEPT ![r] = [ip |-> ip, attempts |-> cache_get(IpKey(ip), 0)]]
    /\ last' = Call("cache.get", r, NoUser, "None", {})
    /\ UNCHANGED <<now, cache, window_start, window_calls, served, notCache>>

check_ip_rate_limit_set(r) ==
    LET ip == pending[r].ip
        attempts == pending[r].attempts
    IN  /\ pending[r] # NoPending
        /\ pending' = [pending EXCEPT ![r] = NoPending]
        /\ IF Exhausted(attempts)
           THEN /\ last' = [CallOn("check_ip_rate_limit", ip, "False") EXCEPT !.req = r]
                /\ UNCHANGED <<cache, served>>
           ELSE /\ cache' = cache_set(IpKey(ip), attempts + 1, ThrottleTimeout)
                /\ served' = [served EXCEPT ![ip] = @ + 1]
                /\ last' = [CallOn("check_ip_rate_limit", ip, "True") EXCEPT !.req = r]
        /\ UNCHANGED <<now, window_start, window_calls, notCache>>

ThrottleTickSteps == {ThrottleTimeout \div 2, ThrottleTimeout}

TickThrottle(d) ==
    /\ now + d <= MaxNowThrottle
    /\ now' = now + d
    /\ last' = CallOn("tick", "none", "None")
    /\ UNCHANGED <<cacheVars, notCache>>

-----------------------------------------------------------------------------
(* PasswordReset *)

\* timedelta(hours=24), the expiry the callers of PasswordReset.objects.create give
ResetHours == 24

\* A request that has no token whose siblings it is about to invalidate
NoToken == 0

\* PasswordReset.objects.create(user=..., token=..., expires_at=..., created_ip=...):
\* is_used and used_at take the defaults of the model
NewPasswordReset(u) ==
    [user |-> u, is_used |-> FALSE, used_at |-> None,
     expires_at |-> now + ResetHours * 3600]

PasswordResetCreate(u) ==
    /\ Len(password_resets) < MaxTokens
    /\ password_resets' = Append(password_resets, NewPasswordReset(u))
    /\ last' = CallOn("password_reset_create", Len(password_resets) + 1, "None")
    /\ UNCHANGED <<replies, issued, notReset>>

\* the filter without its exclude(id=self.id)
Mutant_OtherActiveTokens_IncludesSelf(self_id) ==
    {i \in 1..Len(password_resets) :
        /\ password_resets[i].user = password_resets[self_id].user
        /\ password_resets[i].is_used = FALSE}

\* the filter selecting the used tokens instead of the unused ones
Mutant_OtherActiveTokens_UsedOnes(self_id) ==
    {i \in 1..Len(password_resets) :
        /\ password_resets[i].user = password_resets[self_id].user
        /\ password_resets[i].is_used = TRUE
        /\ i # self_id}

\* filter(user=self.user, is_used=False).exclude(id=self.id)
OtherActiveTokens(self_id) ==
    {i \in 1..Len(password_resets) :
        /\ password_resets[i].user = password_resets[self_id].user
        /\ password_resets[i].is_used = FALSE
        /\ i # self_id}

\* PasswordReset.invalidate_other_tokens, on the token with id self_id
invalidate_other_tokens(self_id) ==
    /\ self_id \in 1..Len(password_resets)
    /\ password_resets' =
           [i \in 1..Len(password_resets) |->
               IF i \in OtherActiveTokens(self_id)
               THEN [password_resets[i] EXCEPT !.is_used = TRUE]
               ELSE password_resets[i]]
    /\ last' = CallOn("invalidate_other_tokens", self_id, "None")
    /\ UNCHANGED <<replies, issued, notReset>>

\* A caller that wants one active token per user: request r creates a token
\* for u, and afterwards calls invalidate_other_tokens on it; other requests
\* may run between the two steps
IssueToken(r, u) ==
    /\ issued[r] = NoToken
    /\ Len(password_resets) < MaxTokens
    /\ password_resets' = Append(password_resets, NewPasswordReset(u))
    /\ issued' = [issued EXCEPT ![r] = Len(password_resets) + 1]
    /\ last' = [CallOn("password_reset_create", Len(password_resets) + 1, "None")
                    EXCEPT !.req = r]
    /\ UNCHANGED <<replies, notReset>>

InvalidateSiblings(r) ==
    /\ issued[r] # NoToken
    /\ password_resets' =
           [i \in 1..Len(password_resets) |->
               IF i \in OtherActiveTokens(issued[r])
               THEN [password_resets[i] EXCEPT !.is_used = TRUE]
               ELSE password_resets[i]]
    /\ issued' = [issued EXCEPT ![r] = NoToken]
    /\ last' = [CallOn("invalidate_other_tokens", issued[r], "None") EXCEPT !.req = r]
    /\ UNCHANGED <<replies, notReset>>

-----------------------------------------------------------------------------
(* RequestPasswordReset *)

UnknownEmail == <<"nobody", "example.com">>
Emails == {EmailOf(u) : u \in Users} \cup {UnknownEmail}

NoReply == [success |-> FALSE, message |-> "none"]

\* User.objects.get(email=email) finds a user
UserExists(email) == \E u \in Users : db_user[u].email = email

\* What RequestPasswordReset.mutate returns
RequestPasswordResetReply(email) ==
    IF UserExists(email)
    THEN [success |-> TRUE, message |-> "Password reset instructions sent to your email"]
    ELSE [success |-> TRUE,
          message |-> "If an account exists with this email, you will receive password reset instructions."]

RequestPasswordReset(email) ==
    /\ replies' = [replies EXCEPT ![email] = RequestPasswordResetReply(email)]
    /\ last' = CallOn("request_password_reset", email, "None")
    /\ UNCHANGED <<password_resets, issued, notReset>>

-----------------------------------------------------------------------------
(* Profile, NotificationPreference *)

\* A user without a Profile / NotificationPreference row
NoRow == "no row"

\* Values a caller gives for Profile.bio (blank by default) and for
\* NotificationPreference.email_notifications (True by default); "None" is an
\* argument that was left out
Bios == {"bio"}
Flags == {"False"}

\* get_or_create(user=user), then setattr(field, value) "if value is not None"
Fetched(row, default, value) ==
    IF value # "None" THEN value ELSE IF row = NoRow THEN default ELSE row

\* Profile.save
ProfileSave(u, bio) ==
    /\ profiles' = [profiles EXCEPT ![u] = bio]
    /\ cache' = cache_delete(cache, ProfileKey(u))

\* UpdateProfile.mutate
UpdateProfile(u, bio) ==
    /\ ProfileSave(u, Fetched(profiles[u], "", bio))
    /\ last' = Call("update_profile", "none", u, "True", {})
    /\ UNCHANGED <<addresses, preferences, notAccount>>

\* NotificationPreference.save
PreferenceSave(u, email_notifications) ==
    /\ preferences' = [preferences EXCEPT ![u] = email_notifications]
    /\ cache' = cache_delete(cache, PreferenceKey(u))

\* UpdateNotificationPreferences.mutate
UpdateNotificationPreferences(u, email_notifications) ==
    /\ PreferenceSave(u, Fetched(preferences[u], "True", email_notifications))
    /\ last' = Call("update_notification_preferences", "none", u, "True", {})
    /\ UNCHANGED <<addresses, profiles, notAccount>>

\* cache.set(cache_key, obj): a reader caches what it read
CacheFill(key, value) ==
    /\ cache' = cache_set_default(key, value)
    /\ last' = CallOn("cache_set", key, "None")
    /\ UNCHANGED <<accountVars, notAccount>>

-----------------------------------------------------------------------------
(* Notification *)

\* Notification.objects.create(user=..., ...): is_read takes the default
NotificationCreate(u) ==
    /\ Len(notifications) < MaxNotifications
    /\ notifications' = Append(notifications, [user |-> u, is_read |-> FALSE])
    /\ last' = CallOn("notification_create", Len(notifications) + 1, "None")
    /\ UNCHANGED <<cache, notNotification>>

\* Notification.mark_as_read, on the notification with this id
mark_as_read(id) ==
    /\ id \in 1..Len(notifications)
    /\ notifications' = [notifications EXCEPT ![id].is_read = TRUE]
    /\ cache' = cache_delete(cache, UnreadKey(notifications[id].user))
    /\ last' = CallOn("mark_as_read", id, "None")
    /\ UNCHANGED notNotification

\* MarkNotificationAsRead.mutate, for the logged-in user u
MarkNotificationAsRead(u, id) ==
    /\ IF id \in 1..Len(notifications) /\ notifications[id].user = u
       THEN /\ notifications' = [notifications EXCEPT ![id].is_read = TRUE]
            /\ last' = CallOn("MarkNotificationAsRead", id, "Notification marked as read")
       ELSE \* Notification.DoesNotExist
            /\ last' = CallOn("MarkNotificationAsRead", id, "Notification not found")
            /\ UNCHANGED notifications
    /\ UNCHANGED <<cache, notNotification>>

-----------------------------------------------------------------------------
(* Address *)

AddressTypes == {"shipping", "billing"}

\* The rows that are in the table
LiveAddresses == {i \in 1..Len(addresses) : addresses[i].live}

\* filter(user=self.user, type=self.type, is_default=True).exclude(id=self.id)
OtherDefaults(rows, self_id, self) ==
    {i \in 1..Len(rows) :
        /\ rows[i].live
        /\ rows[i].user = self.user
        /\ rows[i].type = self.type
        /\ rows[i].is_default
        /\ i # self_id}

\* Address.save without its "if self.is_default" block
Mutant_ClearOtherDefaults_Skipped(rows, self_id, self) == rows

\* The table after the update of Address.save: the other defaults are cleared
\* when self is a default
ClearOtherDefaults(rows, self_id, self) ==
    IF self.is_default
    THEN [i \in 1..Len(rows) |->
             IF i \in OtherDefaults(rows, self_id, self)
             THEN [rows[i] EXCEPT !.is_default = FALSE]
             ELSE rows[i]]
    ELSE rows

\* The table after super().save(): self is written under its id, a new row
\* (self_id = Len(rows) + 1) being inserted
WriteAddress(rows, self_id, self) ==
    IF self_id \in 1..Len(rows)
    THEN [rows EXCEPT ![self_id] = self]
    ELSE Append(rows, self)

\* Address.save
AddressSave(self_id, self) ==
    /\ addresses' = WriteAddress(ClearOtherDefaults(addresses, self_id, self), self_id, self)
    /\ cache' = cache_delete(cache, AddressesKey(self.user))

\* CreateAddress.mutate: Address.objects.create(user=user, **kwargs); an
\* is_default that is left out ("None") takes the column's default, False
CreateAddress(u, type, is_default) ==
    /\ Len(addresses) < MaxAddresses
    /\ AddressSave(Len(addresses) + 1,
                   [user |-> u, type |-> type, is_default |-> (is_default = "True"),
                    live |-> TRUE])
    /\ last' = [Call("create_address", "none", u, "True", {}) EXCEPT
                    !.key = Len(addresses) + 1]
    /\ UNCHANGED <<profiles, preferences, notAccount>>

\* UpdateAddress.mutate: the address is read again, is_default is set when it
\* is given (is_default = "None" stands for an argument left out), and the
\* address is saved; an id that is not an address of the user changes nothing
UpdateAddress(u, id, is_default) ==
    /\ id \in 1..Len(addresses)
    /\ IF id \in LiveAddresses /\ addresses[id].user = u
       THEN /\ AddressSave(id, IF is_default = "None" THEN addresses[id]
                               ELSE [addresses[id] EXCEPT !.is_default = (is_default = "True")])
            /\ last' = [Call("update_address", "none", u, "True", {}) EXCEPT !.key = id]
       ELSE /\ last' = [Call("update_address", "none", u, "False", {}) EXCEPT !.key = id]
            /\ UNCHANGED <<addresses, cache>>
    /\ UNCHANGED <<profiles, preferences, notAccount>>

\* An address that has no id yet: its row is inserted by super().save()
NoId == 0

\* A request that is not inside Address.save
NoSaving == [id |-> None, self |-> [user |-> NoUser]]

\* First half of Address.save, for request r: the update that clears the other
\* defaults, a statement of its own (there is no transaction around save)
AddressSaveClear(r, self_id, self) ==
    /\ saving[r] = NoSaving
    /\ addresses' = ClearOtherDefaults(addresses, self_id, self)
    /\ saving' = [saving EXCEPT ![r] = [id |-> self_id, self |-> self]]
    /\ last' = [Call("address_save_clear", r, self.user, "None", {}) EXCEPT !.key = self_id]
    /\ UNCHANGED <<cache, profiles, preferences, now, authVars, window_start, window_calls,
                   pending, served, resetVars, storeVars, notificationVars>>

\* Second half of Address.save, for request r: super().save() writes the row
\* (a new one gets the next id) and the cache entry is deleted
AddressSaveWrite(r) ==
    LET self == saving[r].self
        self_id == IF saving[r].id = NoId THEN Len(addresses) + 1 ELSE saving[r].id
    IN  /\ saving[r] # NoSaving
        /\ addresses' = WriteAddress(addresses, self_id, self)
        /\ cache' = cache_delete(cache, AddressesKey(self.user))
        /\ saving' = [saving EXCEPT ![r] = NoSaving]
        /\ last' = [Call("address_save_write", r, self.user, "True", {}) EXCEPT
                        !.key = self_id]
        /\ UNCHANGED <<profiles, preferences, now, authVars, window_start, window_calls,
                       pending, served, resetVars, storeVars, notificationVars>>

\* The addresses that requests are about to insert
PendingInserts == {r \in Reqs : saving[r] # NoSaving /\ saving[r].id = NoId}

\* CreateAddress.mutate of request r up to the update inside Address.save
CreateAddressBegin(r, u, type, is_default) ==
    /\ Len(addresses) + Cardinality(PendingInserts) < MaxAddresses
    /\ AddressSaveClear(r, NoId, [user |-> u, type |-> type,
                                  is_default |-> (is_default = "True"), live |-> TRUE])

\* UpdateAddress.mutate of request r up to the update inside Address.save: the
\* address is read, is_default is set on the copy, and save() starts
UpdateAddressBegin(r, u, id, is_default) ==
    /\ id \in LiveAddresses
    /\ addresses[id].user = u
    /\ AddressSaveClear(r, id, IF is_default = "None" THEN addresses[id]
                               ELSE [addresses[id] EXCEPT !.is_default = (is_default = "True")])

\* Where a deleted row was: ids are not given out again
DeletedAddress == [user |-> NoUser, type |-> "none", is_default |-> FALSE, live |-> FALSE]

\* Address.delete without its cache.delete
Mutant_AddressDelete_KeepsCache(self_id) ==
    /\ addresses' = [addresses EXCEPT ![self_id] = DeletedAddress]
    /\ UNCHANGED cache

\* Address.delete
AddressDelete(self_id) ==
    /\ addresses' = [addresses EXCEPT ![self_id] = DeletedAddress]
    /\ cache' = cache_delete(cache, AddressesKey(addresses[self_id].user))

\* DeleteAddress.mutate
DeleteAddress(u, id) ==
    /\ id \in 1..Len(addresses)
    /\ IF id \in LiveAddresses /\ addresses[id].user = u
       THEN /\ AddressDelete(id)
            /\ last' = [Call("delete_address", "none", u, "True", {}) EXCEPT !.key = id]
       ELSE /\ last' = [Call("delete_address", "none", u, "False", {}) EXCEPT !.key = id]
            /\ UNCHANGED <<addresses, cache>>
    /\ UNCHANGED <<profiles, preferences, notAccount>>

-----------------------------------------------------------------------------
(* store.webhooks *)

\* settings.SHOPIFY_API_SECRET, and a key that is not the secret
ShopifySecret == "SHOPIFY_API_SECRET"
ForeignKey == "not the secret"

\* hmac.new(key, data, hashlib.sha256).digest()
hmac_sha256(key, data) == <<"hmac-sha256", key, data>>

\* base64.b64encode(digest).decode('utf-8')
b64encode(digest) == <<"base64", digest>>

\* request.headers.get('X-Shopify-Hmac-SHA256') of a request without the
\* header, with an empty one, and with one that holds a non-ASCII character
AbsentHeader == <<"None">>
EmptyHeader == <<"">>
NonAsciiHeader == <<"non-ASCII">>

\* The SourceCode rows: shopify_variant_id -> the row's id
SourceCodes == [v \in {"v1", "v2"} |-> <<"source code", v>>]

\* The variant ids an order may name: those of the SourceCode rows and one
\* that no SourceCode has
VariantIds == DOMAIN SourceCodes \cup {"v9"}

OrderIds == {"o1", "o2"}
CustomerEmail == <<"customer", "example.com">>

\* Sequences of at most n line items
LineItems(n) ==
    UNION {[1..k -> [variant_id : VariantIds]] : k \in 0..n}

\* The order data Shopify sends
Orders ==
    [id : OrderIds, email : {CustomerEmail}, line_items : LineItems(MaxItems)]

\* json.dumps(order_data) as the request body, and json.loads(request.body)
json_dumps(order_data) == <<"json", order_data>>
json_loads(body) == body[2]

\* The headers a sender may put on a body
HmacHeaders(body) ==
    {AbsentHeader, EmptyHeader, NonAsciiHeader,
     b64encode(hmac_sha256(ShopifySecret, body)),
     b64encode(hmac_sha256(ForeignKey, body))}

\* verify_webhook: hmac.compare_digest on two str raises TypeError when one
\* of them holds a non-ASCII character
verify_webhook(data, hmac_header) ==
    IF hmac_header = NonAsciiHeader
    THEN "TypeError"
    ELSE IF b64encode(hmac_sha256(ShopifySecret, data)) = hmac_header
    THEN "True"
    ELSE "False"

\* Purchase.objects.create
NewPurchase(order_data, source_code) ==
    [shopify_order_id |-> order_data.id, source_code |-> source_code,
     customer_email |-> order_data.email]

\* Whether the INSERT passes the unique constraint on shopify_order_id
PurchaseCreateOk(rows, row) ==
    \A i \in 1..Len(rows) : rows[i].shopify_order_id # row.shopify_order_id

\* The loop over order_data['line_items'], from the purchases there are:
\* the rows afterwards and the status the handler answers with
RECURSIVE ProcessLineItems(_, _, _)
ProcessLineItems(rows, order_data, items) ==
    IF items = <<>>
    THEN [rows |-> rows, status |-> "200"]
    ELSE LET item == Head(items)
         IN  IF item.variant_id \notin DOMAIN SourceCodes
             THEN \* SourceCode.DoesNotExist: continue
                  ProcessLineItems(rows, order_data, Tail(items))
             ELSE LET row == NewPurchase(order_data, SourceCodes[item.variant_id])
                  IN  IF PurchaseCreateOk(rows, row)
                      THEN ProcessLineItems(Append(rows, row), order_data, Tail(items))
                      ELSE \* IntegrityError, caught by "except Exception"
                           [rows |-> rows, status |-> "500"]

\* order_webhook
order_webhook(body, hmac_header) ==
    LET call(status) ==
            WithArgs(CallOn("order_webhook", json_loads(body).id, status),
                     <<body, hmac_header>>)
        verified ==
            IF hmac_header \in {AbsentHeader, EmptyHeader}
            THEN "False" ELSE verify_webhook(body, hmac_header)
        done == ProcessLineItems(purchases, json_loads(body), json_loads(body).line_items)
    IN  /\ IF verified = "False"
           THEN /\ last' = call("401")
                /\ UNCHANGED purchases
           ELSE IF verified = "TypeError"
           THEN \* raised outside the try: the framework answers 500
                /\ last' = call("500")
                /\ UNCHANGED purchases
           ELSE /\ purchases' = done.rows
                /\ last' = call(done.status)
        /\ UNCHANGED notStore

-----------------------------------------------------------------------------
(* Initial state: the users exist, nothing has failed, the cache is empty *)

InitAuth ==
    /\ db_user = [u \in Users |-> NewUserRow(u)]
    /\ inst = [r \in Reqs |-> NoInst]
    /\ security_log = <<>>
    /\ login_attempts = <<>>
    /\ calls = [u \in Users |-> 0]

InitCache ==
    /\ cache = [k \in CacheKeys |-> Missing]
    /\ window_start = [ip \in IPs |-> None]
    /\ window_calls = [ip \in IPs |-> 0]
    /\ pending = [r \in Reqs |-> NoPending]
    /\ served = [ip \in IPs |-> 0]

InitReset ==
    /\ password_resets = <<>>
    /\ replies = [e \in Emails |-> NoReply]
    /\ issued = [r \in Reqs |-> NoToken]

InitAccount ==
    /\ addresses = <<>>
    /\ profiles = [u \in Users |-> NoRow]
    /\ preferences = [u \in Users |-> NoRow]

InitStore ==
    /\ purchases = <<>>

InitNotification ==
    /\ notifications = <<>>

InitSaving ==
    /\ saving = [r \in Reqs |-> NoSaving]

Init ==
    /\ now = 0
    /\ InitAuth
    /\ InitCache
    /\ InitReset
    /\ InitAccount
    /\ InitStore
    /\ InitNotification
    /\ InitSaving
    /\ last = NoCall

-----------------------------------------------------------------------------
(* The lockout tracker, one request at a time *)

NextLockout ==
    \/ \E r \in SeqReqs, u \in Users : Load(r, u)
    \/ \E r \in SeqReqs : increment_failed_login(r)
    \/ \E r \in SeqReqs : reset_failed_login(r)
    \/ \E r \in SeqReqs : IsAccountLocked(r)
    \/ \E d \in LockTickSteps : TickLock(d)

SpecLockout == Init /\ [][NextLockout]_vars

-----------------------------------------------------------------------------
(* Claims about the lockout tracker *)

\* C1: for a user that starts with failed-login count 0 and no lock-expiry,
\* right after the k-th consecutive increment_failed_login (no
\* reset_failed_login in between) the persisted count is k, the persisted user
\* is locked exactly when k >= 5, and at k = 5 lock-expiry is now + 30 minutes.
C1_CountIsCallsAndLockedFromFive ==
    \A u \in Users :
        (last.op = "increment_failed_login" /\ last.user = u) =>
            /\ db_user[u].failed_login_attempts = calls[u]
            /\ is_account_locked(db_user[u]) <=> (calls[u] >= LockThreshold)
            /\ (calls[u] = LockThreshold =>
                    db_user[u].account_locked_until = now + LockSeconds)

\* C2: a reset_failed_login on an instance whose failed-login count is above 0,
\* locked or not, leaves the persisted count 0 and the persisted lock-expiry
\* cleared, and the user (row and instance) reads as not locked right after.
C2_ResetClearsCountAndLock ==
    [][\A r \in Reqs :
        (last'.op = "reset_failed_login" /\ last'.req = r
            /\ inst[r].failed_login_attempts > 0) =>
            LET u == inst[r].user
            IN  /\ db_user'[u].failed_login_attempts = 0
                /\ db_user'[u].account_locked_until = None
                /\ inst'[r].failed_login_attempts = 0
                /\ inst'[r].account_locked_until = None
                /\ last'.update_fields = ResetFields
                /\ db_user'[u].last_failed_login = db_user[u].last_failed_login]_vars

\* C2 witness: a reset that wrote, after which the row has count 0 and no lock
\* while last_failed_login still tells of the failures that were counted.
C2_Witness ==
    /\ last.op = "reset_failed_login"
    /\ last.update_fields = ResetFields
    /\ db_user[last.user].failed_login_attempts = 0
    /\ db_user[last.user].account_locked_until = None
    /\ db_user[last.user].last_failed_login # None
    /\ ~is_account_locked(inst[last.req])

\* C3: reset_failed_login is idempotent and silent: it never appends a log
\* entry, a call on an instance whose count is already 0 saves nothing and
\* changes nothing, and so does a second call right after a first one.
C3_ResetIdempotentNoWrite ==
    [][\A r \in Reqs :
        (last'.op = "reset_failed_login" /\ last'.req = r) =>
            /\ security_log' = security_log
            /\ (inst[r].failed_login_attempts = 0 \/
                (last.op = "reset_failed_login" /\ last.req = r)) =>
                    /\ last'.update_fields = {}
                    /\ db_user' = db_user
                    /\ inst' = inst]_vars

\* C3 witness: a reset that saved nothing, on a user whose earlier failures
\* had already been reset.
C3_Witness ==
    /\ last.op = "reset_failed_login"
    /\ last.update_fields = {}
    /\ inst[last.req].failed_login_attempts = 0
    /\ db_user[last.user].failed_login_attempts = 0
    /\ db_user[last.user].last_failed_login # None

\* C4: is_account_locked returns true exactly when lock-expiry is set and
\* strictly later than now; the call changes neither the row, the instance nor
\* the log; and a lock-expiry held by an instance or a row is cleared only by
\* reset_failed_login (or, for an instance, by loading the row again).
C4_IsLockedStrictAndPure ==
    [][/\ \A r \in Reqs :
            (last'.op = "is_account_locked" /\ last'.req = r) =>
                /\ (last'.ret = "True") <=>
                       (inst[r].account_locked_until # None
                            /\ inst[r].account_locked_until > now)
                /\ last'.ret \in {"True", "False"}
                /\ UNCHANGED <<now, db_user, inst, security_log>>
       /\ \A r \in Reqs :
            (inst[r].account_locked_until # None
                /\ inst'[r].account_locked_until = None) =>
                    last'.op \in {"reset_failed_login", "load"}
       /\ \A u \in Users :
            (db_user[u].account_locked_until # None
                /\ db_user'[u].account_locked_until = None) =>
                    last'.op = "reset_failed_login"]_vars

\* C4 witness: the check answered False for an instance whose lock-expiry is
\* exactly now, and the instance still holds that lock-expiry and its count.
C4_Witness ==
    /\ last.op = "is_account_locked"
    /\ last.ret = "False"
    /\ inst[last.req].account_locked_until = now
    /\ inst[last.req].failed_login_attempts >= LockThreshold

-----------------------------------------------------------------------------
(* The login throttle, one call at a time *)

NextThrottle ==
    \/ \E ip \in IPs : check_ip_rate_limit(ip)
    \/ \E d \in ThrottleTickSteps : TickThrottle(d)

SpecThrottle == Init /\ [][NextThrottle]_vars

\* C5: a check_ip_rate_limit call returns True exactly when the IP's count in
\* the current window is below 10; a True call raises that count by one, a
\* False call leaves the entry (count and expiry) as it was; no call touches
\* another IP's entry or the database; so the n-th call of a window returns
\* True exactly for n <= 10.
C5_ThrottleCountsToTen ==
    [][\A ip \in IPs :
        (last'.op = "check_ip_rate_limit" /\ last'.key = ip) =>
            LET before == IF cache[IpKey(ip)] # Missing /\ cache[IpKey(ip)].expires > now
                          THEN cache[IpKey(ip)].value ELSE 0
            IN  /\ (last'.ret = "True") <=> (before < RateLimit)
                /\ last'.ret \in {"True", "False"}
                /\ last'.ret = "True" =>
                       /\ cache'[IpKey(ip)].value = before + 1
                       /\ cache'[IpKey(ip)].expires > now
                /\ last'.ret = "False" => cache'[IpKey(ip)] = cache[IpKey(ip)]
                /\ \A k \in CacheKeys \ {IpKey(ip)} : cache'[k] = cache[k]
                /\ UNCHANGED <<authVars, resetVars, accountVars>>
                /\ (last'.ret = "True") <=> (window_calls'[ip] <= RateLimit)]_vars

\* C5 witness: the 11th call of a window was refused with the count left at 10
\* while the other IP, with its own count, is still being served.
C5_Witness ==
    /\ last.op = "check_ip_rate_limit"
    /\ last.ret = "False"
    /\ window_calls[last.key] = RateLimit + 1
    /\ cache[IpKey(last.key)].value = RateLimit
    /\ \E ip \in IPs \ {last.key} :
        Live(cache[IpKey(ip)]) /\ cache[IpKey(ip)].value < RateLimit

\* C6: the window is fixed: it opens at the first counted call and the counter
\* resets 60 seconds after that call, so no call made 60 seconds or more after
\* the window's first call is refused.
C6_FixedWindowFromFirstCall ==
    (last.op = "check_ip_rate_limit" /\ last.ret = "False") =>
        now < window_start[last.key] + ThrottleTimeout

-----------------------------------------------------------------------------
(* Password reset tokens and reset requests, one call at a time *)

NextReset ==
    \/ \E u \in Users : PasswordResetCreate(u)
    \/ \E t \in 1..MaxTokens : invalidate_other_tokens(t)
    \/ \E e \in Emails : RequestPasswordReset(e)

SpecReset == Init /\ [][NextReset]_vars

\* C7: invalidate_other_tokens on token t sets is_used on the other unused
\* tokens of t's user and changes nothing else: not t, not a token of another
\* user, not used_at (or any other column) of any token.
C7_InvalidatesOnlyUnusedSiblings ==
    [][\A t \in 1..Len(password_resets) :
        (last'.op = "invalidate_other_tokens" /\ last'.key = t) =>
            /\ Len(password_resets') = Len(password_resets)
            /\ \A i \in 1..Len(password_resets) :
                LET old == password_resets[i]
                    sibling == i # t /\ old.user = password_resets[t].user
                IN  /\ password_resets'[i].is_used = (old.is_used \/ sibling)
                    /\ password_resets'[i].used_at = old.used_at
                    /\ password_resets'[i].user = old.user
                    /\ password_resets'[i].expires_at = old.expires_at
            /\ UNCHANGED <<authVars, replies>>]_vars

\* C7 witness: after invalidate_other_tokens on t, t is unused, an older token
\* of the same user is used without a used_at, and a token of another user is
\* still unused.
C7_Witness ==
    /\ last.op = "invalidate_other_tokens"
    /\ ~password_resets[last.key].is_used
    /\ \E i \in 1..Len(password_resets) :
        /\ i < last.key
        /\ password_resets[i].user = password_resets[last.key].user
        /\ password_resets[i].is_used
        /\ password_resets[i].used_at = None
    /\ \E i \in 1..Len(password_resets) :
        /\ password_resets[i].user # password_resets[last.key].user
        /\ ~password_resets[i].is_used

\* C10: the answer of RequestPasswordReset (success and message) to an email
\* that belongs to a user is the answer to an email that belongs to none.
C10_ReplyHidesAccountExistence ==
    \A e1, e2 \in Emails :
        (replies[e1] # NoReply /\ replies[e2] # NoReply
            /\ UserExists(e1) /\ ~UserExists(e2)) => replies[e1] = replies[e2]

-----------------------------------------------------------------------------
(* Profiles, preferences, addresses and their cache entries, one call at a time *)

OptionalBoolean == {"None", "True", "False"}
AccountKeys == CacheKeys \ ({IpKey(ip) : ip \in IPs} \cup {UnreadKey(u) : u \in Users})

NextAddress ==
    \/ \E u \in Users, type \in AddressTypes, d \in OptionalBoolean : CreateAddress(u, type, d)
    \/ \E u \in Users, id \in 1..MaxAddresses, d \in OptionalBoolean : UpdateAddress(u, id, d)
    \/ \E u \in Users, id \in 1..MaxAddresses : DeleteAddress(u, id)

SpecAddress == Init /\ [][NextAddress]_vars

\* Here the addresses are shipping addresses that are not defaults: what the
\* defaults do is the subject of SpecAddress
NextAccount ==
    \/ \E u \in Users, bio \in Bios \cup {"None"} : UpdateProfile(u, bio)
    \/ \E u \in Users, flag \in Flags : UpdateNotificationPreferences(u, flag)
    \/ \E u \in Users :
        Len(addresses) < MaxCachedAddresses /\ CreateAddress(u, "shipping", "None")
    \/ \E u \in Users, id \in 1..MaxCachedAddresses : UpdateAddress(u, id, "None")
    \/ \E u \in Users, id \in 1..MaxCachedAddresses : DeleteAddress(u, id)
    \/ \E k \in AccountKeys : CacheFill(k, 0)

SpecAccount == Init /\ [][NextAccount]_vars

\* The default addresses of user u and type t
Defaults(rows, u, t) ==
    {i \in 1..Len(rows) :
        rows[i].live /\ rows[i].user = u /\ rows[i].type = t /\ rows[i].is_default}

\* C8: after every address create, update and delete, each user has at most
\* one default address of each type; an address saved with is_default = true
\* is then the default of its user and type, and the defaults of the other
\* users and of the other types are what they were.
C8_OneDefaultPerUserAndType ==
    [][/\ \A u \in Users, t \in AddressTypes : Cardinality(Defaults(addresses', u, t)) <= 1
       /\ \A id \in 1..Len(addresses') :
            (last'.op \in {"create_address", "update_address"} /\ last'.ret = "True"
                /\ last'.key = id /\ addresses'[id].is_default) =>
                /\ Defaults(addresses', addresses'[id].user, addresses'[id].type) = {id}
                /\ \A u \in Users, t \in AddressTypes :
                    (u # addresses'[id].user \/ t # addresses'[id].type) =>
                        Defaults(addresses', u, t) = Defaults(addresses, u, t)]_vars

\* C8 witness: an address was saved as default and is the only default of its
\* user and type, an older address of that user and type is no longer default,
\* and the user's default of the other type is still in place.
C8_Witness ==
    /\ last.op \in {"create_address", "update_address"}
    /\ last.ret = "True"
    /\ addresses[last.key].is_default
    /\ \E i \in LiveAddresses :
        /\ i # last.key
        /\ addresses[i].user = addresses[last.key].user
        /\ addresses[i].type = addresses[last.key].type
        /\ ~addresses[i].is_default
    /\ \E i \in LiveAddresses :
        /\ addresses[i].user = addresses[last.key].user
        /\ addresses[i].type # addresses[last.key].type
        /\ addresses[i].is_default

\* C9: right after Profile.save, NotificationPreference.save, Address.save or
\* Address.delete the cache holds nothing under the key of the object's user.
C9_SaveLeavesNoCacheEntry ==
    /\ last.op = "update_profile" => ~Live(cache[ProfileKey(last.user)])
    /\ last.op = "update_notification_preferences" => ~Live(cache[PreferenceKey(last.user)])
    /\ (last.op \in {"create_address", "update_address", "delete_address"}
            /\ last.ret = "True") => ~Live(cache[AddressesKey(last.user)])

\* C9 witness: an address was deleted, its user's addresses key is gone from
\* the cache while the other keys of that user are still cached.
C9_Witness ==
    /\ last.op = "delete_address"
    /\ last.ret = "True"
    /\ ~Live(cache[AddressesKey(last.user)])
    /\ Live(cache[ProfileKey(last.user)])
    /\ Live(cache[PreferenceKey(last.user)])
    /\ \E u \in Users \ {last.user} : Live(cache[AddressesKey(u)])

\* C12: a RequestPasswordReset for the email of an existing user creates
\* exactly one new PasswordReset row, unused and expiring 24 hours from now,
\* appends one reset_request entry to the security log, and changes no token
\* that existed before.
C12_ResetRequestIssuesTokenAndLogs ==
    [][(last'.op = "request_password_reset" /\ UserExists(last'.key)) =>
            /\ Len(password_resets') = Len(password_resets) + 1
            /\ SubSeq(password_resets', 1, Len(password_resets)) = password_resets
            /\ ~password_resets'[Len(password_resets')].is_used
            /\ password_resets'[Len(password_resets')].expires_at = now + ResetHours * 3600
            /\ db_user[password_resets'[Len(password_resets')].user].email = last'.key
            /\ Len(security_log') = Len(security_log) + 1
            /\ SubSeq(security_log', 1, Len(security_log)) = security_log
            /\ security_log'[Len(security_log')].event_type = "reset_request"
       ]_vars

-----------------------------------------------------------------------------
(* The mutations on the logged-in user together with the lockout methods,
   one request at a time *)

EmailArguments == {NoEmail, FreeEmail} \cup {EmailOf(u) : u \in Users}

\* The user who is logged in (info.context.user); the other user is there to
\* own an email address and to be authenticated
LoggedIn == {"u1"}

NextAuth ==
    \/ \E r \in SeqReqs, u \in LoggedIn : Load(r, u)
    \/ \E r \in SeqReqs : increment_failed_login(r)
    \/ \E r \in SeqReqs : reset_failed_login(r)
    \/ \E r \in SeqReqs, old_password \in Passwords,
          new_password \in Passwords \cup {WeakPassword}, remote_addr \in RemoteAddrs :
            ChangePassword(r, old_password, new_password, remote_addr)
    \/ \E r \in SeqReqs, email \in EmailArguments : UpdateUser(r, email)
    \/ \E u \in Users, password \in Passwords : TokenAuth(u, password)

SpecAuth == Init /\ [][NextAuth]_vars

\* C11: a ChangePassword whose old_password does not match the stored hash
\* fails, leaves the hash unchanged and appends no log entry; one whose
\* old_password matches (and whose new password the validators accept) stores
\* the hash of the new password and appends exactly one password_change entry
\* for that user.
C11_ChangePasswordChecksOldAndLogs ==
    [][\A r \in Reqs :
        (last'.op = "change_password" /\ last'.req = r) =>
            LET u == inst[r].user
                old_password == last'.args[1]
                new_password == last'.args[2]
            IN  IF ~check_password(db_user[u], old_password)
                THEN /\ last'.ret # "Password changed successfully"
                     /\ db_user'[u].password = db_user[u].password
                     /\ security_log' = security_log
                ELSE validate_password(new_password) =>
                     /\ db_user'[u].password = make_password(new_password)
                     /\ Len(security_log') = Len(security_log) + 1
                     /\ SubSeq(security_log', 1, Len(security_log)) = security_log
                     /\ security_log'[Len(security_log')].user = u
                     /\ security_log'[Len(security_log')].event_type = "password_change"
       ]_vars

\* C13: an authentication with the correct password of a user whose row is
\* locked is rejected with AccountLocked, records one LoginAttempt with
\* success false, and leaves the failed-login count as it was.
C13_LockedUserIsRejected ==
    [][\A u \in Users :
        (/\ last'.op = "token_auth"
         /\ last'.key = u
         /\ check_password(db_user[u], last'.args[1])
         /\ is_account_locked(db_user[u])) =>
            /\ last'.ret = "AccountLocked"
            /\ Len(login_attempts') = Len(login_attempts) + 1
            /\ ~login_attempts'[Len(login_attempts')].success
            /\ db_user'[u].failed_login_attempts = db_user[u].failed_login_attempts
       ]_vars

\* C20: every operation that changes a user's security state appends at
\* least one SecurityLog entry for that user: an increment_failed_login, a
\* reset_failed_login that clears a lock, a password change and an email change
\* through UpdateUser; and no operation changes or deletes an entry that is in
\* the log.
C20_EveryChangeIsLogged ==
    [][/\ \A u \in Users :
            (/\ last'.user = u
             /\ \/ last'.op = "increment_failed_login"
                \/ /\ last'.op = "reset_failed_login"
                   /\ db_user[u].account_locked_until # None
                   /\ db_user'[u].account_locked_until = None
                \/ /\ last'.op = "change_password"
                   /\ db_user'[u].password # db_user[u].password
                \/ /\ last'.op = "update_user"
                   /\ db_user'[u].email # db_user[u].email) =>
                /\ Len(security_log') > Len(security_log)
                /\ security_log'[Len(security_log')].user = u
       /\ Len(security_log') >= Len(security_log)
       /\ SubSeq(security_log', 1, Len(security_log)) = security_log
       ]_vars

-----------------------------------------------------------------------------
(* The order webhook *)

NextStore ==
    \E order_data \in Orders :
        \E hmac_header \in HmacHeaders(json_dumps(order_data)) :
            order_webhook(json_dumps(order_data), hmac_header)

SpecStore == Init /\ [][NextStore]_vars

\* The request that was made last carried the signature of its body
ValidSignature(call) ==
    call.args[2] = b64encode(hmac_sha256(ShopifySecret, call.args[1]))

\* C14: an order webhook request whose signature header is missing, or is not
\* the base64 HMAC-SHA256 of the body under the shared secret, is answered 401
\* and creates no Purchase.
C14_UnverifiedWebhookIsRefused ==
    [][(last'.op = "order_webhook" /\ ~ValidSignature(last')) =>
            /\ last'.ret = "401"
            /\ purchases' = purchases
       ]_vars

\* C15: an order webhook with a valid signature is answered 200, and for every
\* line item whose variant id is that of a SourceCode there is a Purchase for
\* the order id, that source code and the customer email, whatever the number
\* of line items; line items of unknown variants create nothing.
C15_VerifiedWebhookRecordsEveryItem ==
    [][(last'.op = "order_webhook" /\ ValidSignature(last')) =>
            LET order_data == json_loads(last'.args[1])
                items == order_data.line_items
                Known == {i \in 1..Len(items) : items[i].variant_id \in DOMAIN SourceCodes}
            IN  /\ last'.ret = "200"
                /\ \A i \in Known :
                        \E j \in 1..Len(purchases') :
                            purchases'[j] =
                                NewPurchase(order_data, SourceCodes[items[i].variant_id])
                /\ Len(purchases') <= Len(purchases) + Cardinality(Known)
                /\ SubSeq(purchases', 1, Len(purchases)) = purchases
       ]_vars

-----------------------------------------------------------------------------
(* Concurrent requests on the same user: each works on the copy it loaded *)

NextRace ==
    \/ \E r \in Reqs, u \in LoggedIn : Load(r, u)
    \/ \E r \in Reqs :
            inst[r].failed_login_attempts < MaxRaceCount /\ increment_failed_login(r)
    \/ \E r \in Reqs : reset_failed_login(r)
    \/ \E r \in Reqs : UpdateUser(r, NoEmail)
    \/ now < MaxNowRace /\ TickLock(LockSeconds)

SpecRace == Init /\ [][NextRace]_vars

\* C16: in every interleaving of requests that work on their own loaded
\* copies, a user whose row is locked stops being locked only because time
\* passed the lock-expiry or because reset_failed_login ran; in particular no
\* increment_failed_login leaves the row unlocked when it was locked before.
C16_LockedUntilExpiryOrReset ==
    [][\A u \in Users :
        (is_account_locked(db_user[u]) /\ ~is_account_locked(db_user[u])') =>
            last'.op \in {"tick", "reset_failed_login"}
       ]_vars

-----------------------------------------------------------------------------
(* Concurrent increment_failed_login calls, and nothing else *)

NextFailures ==
    \/ \E r \in Reqs, u \in LoggedIn : Load(r, u)
    \/ \E r \in Reqs : increment_failed_login(r)

SpecFailures == Init /\ [][NextFailures]_vars

\* C17: when increment_failed_login calls for one user run concurrently, each
\* on a copy loaded before the other saved, the persisted count after they have
\* completed is the initial count (0) plus the number of calls. (Stated below
\* the lock threshold, where no call fails.)
C17_ConcurrentFailuresAllCounted ==
    \A u \in Users :
        calls[u] < LockThreshold => db_user[u].failed_login_attempts = calls[u]

-----------------------------------------------------------------------------
(* The login throttle under concurrent requests, inside one window *)

\* The IP address the concurrent requests come from
ThrottledIPs == {"ip1"}

NextThrottleRace ==
    \/ \E r \in Reqs, ip \in ThrottledIPs : check_ip_rate_limit_get(r, ip)
    \/ \E r \in Reqs : check_ip_rate_limit_set(r)

SpecThrottleRace == Init /\ [][NextThrottleRace]_vars

\* C18: in any interleaving of concurrent check_ip_rate_limit calls for one IP
\* inside one window, at most 10 calls return True.
C18_AtMostTenServedConcurrently ==
    \A ip \in IPs : served[ip] <= RateLimit

-----------------------------------------------------------------------------
(* Concurrent issue-then-invalidate sequences *)

NextResetRace ==
    \/ \E r \in Reqs, u \in Users : IssueToken(r, u)
    \/ \E r \in Reqs : InvalidateSiblings(r)

SpecResetRace == Init /\ [][NextResetRace]_vars

\* The unused tokens of user u
ActiveTokens(u) ==
    {i \in 1..Len(password_resets) :
        password_resets[i].user = u /\ ~password_resets[i].is_used}

\* No issue-then-invalidate sequence is between its two steps
Quiescent == \A r \in Reqs : issued[r] = NoToken

\* C19: once every issue-then-invalidate sequence that was started has
\* completed, however the sequences interleaved, at most one token of a user
\* is unused.
C19_OneActiveTokenWhenQuiescent ==
    Quiescent => \A u \in Users : Cardinality(ActiveTokens(u)) <= 1

\* C19 witness: all sequences have completed, and two of them for the same
\* user interleaved: each invalidated the token of the other, so the user has
\* tokens and none of them is unused.
C19_Witness ==
    /\ Quiescent
    /\ last.op = "invalidate_other_tokens"
    /\ \E u \in Users :
            /\ Cardinality({i \in 1..Len(password_resets) : password_resets[i].user = u}) >= 2
            /\ ActiveTokens(u) = {}
    /\ \E u \in Users : Cardinality(ActiveTokens(u)) = 1

-----------------------------------------------------------------------------
(* Further claims about the lockout tracker, one request at a time *)

\* C21: increment_failed_login sets the lock-expiry and appends an
\* account_lock entry only on the call that brings the count to exactly 5, and
\* that append succeeds; a call that brings the count to less or to more than 5
\* changes neither the lock-expiry nor the log.
C21_LocksAndLogsOnlyAtFive ==
    [][\A r \in Reqs :
        (last'.op = "increment_failed_login" /\ last'.req = r) =>
            LET u == inst[r].user
                n == inst[r].failed_login_attempts + 1
            IN  IF n = LockThreshold
                THEN /\ last'.ret = "None"
                     /\ inst'[r].account_locked_until = now + LockSeconds
                     /\ db_user'[u].account_locked_until = now + LockSeconds
                     /\ Len(security_log') = Len(security_log) + 1
                     /\ SubSeq(security_log', 1, Len(security_log)) = security_log
                     /\ security_log'[Len(security_log')].user = u
                     /\ security_log'[Len(security_log')].event_type = "account_lock"
                ELSE /\ inst'[r].account_locked_until = inst[r].account_locked_until
                     /\ db_user'[u].account_locked_until = db_user[u].account_locked_until
                     /\ security_log' = security_log
       ]_vars

-----------------------------------------------------------------------------
(* Further claims about password reset tokens *)

\* C22: invalidate_other_tokens on token t marks as used only tokens of the
\* same user that were issued before t: never t itself, and never a token that
\* was issued after t, also when it runs late, after another request has
\* issued a newer token.
C22_InvalidatesOnlyEarlierTokens ==
    [][last'.op = "invalidate_other_tokens" =>
            \A i \in 1..Len(password_resets) :
                (~password_resets[i].is_used /\ password_resets'[i].is_used) =>
                    /\ password_resets[i].user = password_resets[last'.key].user
                    /\ i < last'.key
       ]_vars

-----------------------------------------------------------------------------
(* Notifications and the cache entry of the unread ones *)

NextNotification ==
    \/ \E u \in Users : NotificationCreate(u)
    \/ \E id \in 1..MaxNotifications : mark_as_read(id)
    \/ \E u \in Users, id \in 1..MaxNotifications : MarkNotificationAsRead(u, id)
    \/ \E u \in Users : CacheFill(UnreadKey(u), 0)

SpecNotification == Init /\ [][NextNotification]_vars

\* C23: after every operation that sets the read flag of a notification,
\* Notification.mark_as_read and the MarkNotificationAsRead mutation alike,
\* the cache holds no entry under unread_notifications_<user> for the user of
\* the notification.
C23_ReadLeavesNoCacheEntry ==
    (/\ last.op \in {"mark_as_read", "MarkNotificationAsRead"}
     /\ last.ret # "Notification not found") =>
        ~Live(cache[UnreadKey(notifications[last.key].user)])

-----------------------------------------------------------------------------
(* Further claims about concurrent requests on the same user *)

\* C24: in every persisted state, whatever the sequence or interleaving of
\* increment_failed_login and reset_failed_login calls on loaded copies, a row
\* with a lock-expiry has a failed-login count of at least 5: a row with a
\* count below 5 has no lock-expiry.
C24_LockExpiryImpliesFiveFailures ==
    \A u \in Users :
        db_user[u].account_locked_until # None =>
            db_user[u].failed_login_attempts >= LockThreshold

\* C24 witness: a row with a lock-expiry (and count 5), while another request
\* still holds a copy of it from before the failures, and a lockout method
\* was the last thing to run.
C24_Witness ==
    /\ last.op \in {"increment_failed_login", "reset_failed_login"}
    /\ \E u \in Users :
            /\ db_user[u].account_locked_until # None
            /\ db_user[u].failed_login_attempts >= LockThreshold
            /\ \E r \in Reqs :
                    /\ inst[r].user = u
                    /\ inst[r].failed_login_attempts < LockThreshold
                    /\ inst[r].account_locked_until = None

-----------------------------------------------------------------------------
(* The lockout methods of one request and the mutations of another, on the
   same user *)

NextMutationRace ==
    \/ \E r \in Reqs, u \in LoggedIn : Load(r, u)
    \/ \E r \in Reqs :
            inst[r].failed_login_attempts < MaxRaceCount /\ increment_failed_login(r)
    \/ \E r \in Reqs : reset_failed_login(r)
    \/ \E r \in Reqs, old_password \in Passwords :
            ChangePassword(r, old_password, OtherPassword, ClientAddr)
    \/ \E r \in Reqs : UpdateUser(r, FreeEmail)

SpecMutationRace == Init /\ [][NextMutationRace]_vars

\* The columns the lockout methods are there to write
LockoutFields == IncrementFields \cup ResetFields

\* C25: increment_failed_login and reset_failed_login write only the lockout
\* columns (failed-login count, last-failed-login, lock-expiry): a password
\* hash or an email that another request persisted after the copy was loaded
\* is not overwritten.
C25_LockoutMethodsWriteLockoutFieldsOnly ==
    [][\A u \in Users :
        (last'.op \in {"increment_failed_login", "reset_failed_login"} /\ last'.user = u) =>
            /\ last'.update_fields \subseteq LockoutFields
            /\ \A f \in UserFields \ LockoutFields : db_user'[u][f] = db_user[u][f]
            /\ \A v \in Users \ {u} : db_user'[v] = db_user[v]
       ]_vars

\* C25 witness: a lockout method has just saved from a copy that still holds
\* the old password hash and the old email, and the row keeps the newer ones.
C25_Witness ==
    /\ last.op \in {"increment_failed_login", "reset_failed_login"}
    /\ last.update_fields # {}
    /\ inst[last.req].password # db_user[last.user].password
    /\ inst[last.req].email # db_user[last.user].email
    /\ db_user[last.user].password = make_password(OtherPassword)
    /\ db_user[last.user].email = FreeEmail
    /\ db_user[last.user].failed_login_attempts = inst[last.req].failed_login_attempts

\* C26: UpdateUser and ChangePassword never change the persisted failed-login
\* count or lock-expiry of a user, also when they run concurrently with
\* increment_failed_login or reset_failed_login for the same user: their save
\* of a copy that was loaded earlier does not roll the lockout state back.
C26_MutationsKeepLockoutState ==
    [][last'.op \in {"update_user", "change_password"} =>
            \A u \in Users :
                /\ db_user'[u].failed_login_attempts = db_user[u].failed_login_attempts
                /\ db_user'[u].account_locked_until = db_user[u].account_locked_until
       ]_vars

\* C27: whenever ChangePassword answers success=false (wrong old password,
\* rejected new password, or any exception, a failed write of the
\* password_change log entry included) the stored password hash of every user
\* is the same as before the mutation.
C27_FailedChangeKeepsHash ==
    [][(last'.op = "change_password" /\ last'.ret # "Password changed successfully") =>
            \A u \in Users : db_user'[u].password = db_user[u].password
       ]_vars

\* C28: in increment_failed_login at or above the threshold the account_lock
\* log entry is written before the lockout fields are saved: when the log write
\* fails the call fails, and the persisted count, last-failed-login and
\* lock-expiry (and the log) are exactly as before the call.
C28_FailedLockLogKeepsRow ==
    [][(last'.op = "increment_failed_login" /\ last'.ret = "IntegrityError") =>
            /\ inst[last'.req].failed_login_attempts + 1 >= LockThreshold
            /\ db_user' = db_user
            /\ security_log' = security_log
            /\ last'.update_fields = {}
       ]_vars

C28_Witness ==
    /\ last.op = "increment_failed_login"
    /\ last.ret = "IntegrityError"
    /\ inst[last.req].failed_login_attempts = LockThreshold
    /\ inst[last.req].account_locked_until # None
    /\ db_user[last.user].failed_login_attempts = LockThreshold - 1
    /\ db_user[last.user].account_locked_until = None

\* C29: when a lock has expired and reset_failed_login has not run, the count
\* is still at or above the threshold, so the very next increment_failed_login
\* locks the account again, for LockMinutes from that moment.
C29_NextFailureAfterExpiryLocksAgain ==
    [][\A r \in SeqReqs :
          (/\ last'.op = "increment_failed_login"
           /\ last'.req = r
           /\ inst[r].failed_login_attempts >= LockThreshold
           /\ inst[r].account_locked_until # None
           /\ ~is_account_locked(inst[r])) =>
                /\ db_user'[inst[r].user].account_locked_until = now + LockSeconds
                /\ is_account_locked(db_user'[inst[r].user])
       ]_vars

-----------------------------------------------------------------------------
(* Address.save of two requests at a time, its two statements interleaved *)

RaceTypes == {"shipping"}

NextAddressRace ==
    \/ \E r \in Reqs, u \in LoggedIn, type \in RaceTypes, d \in OptionalBoolean :
            CreateAddressBegin(r, u, type, d)
    \/ \E r \in Reqs, u \in LoggedIn, id \in 1..MaxAddresses, d \in OptionalBoolean :
            UpdateAddressBegin(r, u, id, d)
    \/ \E r \in Reqs : AddressSaveWrite(r)

SpecAddressRace == Init /\ [][NextAddressRace]_vars

\* No request is inside Address.save
NoSaveInProgress == \A r \in Reqs : saving[r] = NoSaving

\* C30: when two requests save different addresses of the same user and type
\* with is_default = true at the same time, each running its update that
\* clears the other defaults before the row of the other is written, then once
\* both are done the user has at most one default address of that type.
C30_OneDefaultAfterConcurrentSaves ==
    NoSaveInProgress =>
        \A u \in Users, t \in AddressTypes : Cardinality(Defaults(addresses, u, t)) <= 1

====
